---- MODULE Spec2Model ----
\* Model of the urn relief preview (components/ThreePreview.tsx, lib/store.ts
\* and the wizard page): face placement, fit planning, the relief's image
\* build and the mesh load.
\*
\* Units.  Lengths are integers in units of 1e-4 (one bounding-box unit or one
\* metre = 10000).  Ratios (fit0, fit90, s, planeW, planeH) are exact
\* rationals [n, d] with d > 0; floating-point rounding is not modelled.
\* Positions are kept doubled (pos2 = 2 * pos) so that the box centre
\* (min + max) * 0.5 stays an integer.
EXTENDS Integers, Sequences, FiniteSets, TLC

VARIABLES
    \* ---- pure-function harness (FitSpec) ----
    in,             \* the drawn inputs of one call
    out,            \* the result of the call, [op |-> "none"] before it
    \* ---- application state (Spec) ----
    urnId,          \* store: selected urn or Null
    imageDataUrl,   \* store: selected image or Null
    userScale,      \* store: params.scale, in percent
    bbox,           \* ThreePreview state: NoBox or [urn, load]
    urnScale,       \* ThreePreview state: [num, den]
    face,           \* ThreePreview state: Null or a FaceCode
    stlError,       \* ThreePreview state: Null or String(cause)
    geometry,       \* UrnMesh state: NoBox or the [urn, load] whose geometry is shown
    loads,          \* STL loads in flight: set of [id, urn, mounted]
    loadSeq,        \* number of STL loads started so far
    reliefMounted,  \* whether a ReliefPlane is mounted
    maps,           \* ReliefPlane state: NoMaps or [image, build]
    builds,         \* buildMaps calls in flight: set of [id, image, live]
    buildSeq,       \* number of buildMaps calls started so far
    crashed,        \* a render of ThreePreview threw: the tree is unmounted
    camera,         \* the Canvas camera: "default", "fitted" (by simpleFit) or "orbited" (by the user)
    lastFailure,    \* history: the latest failure of a current (not superseded) load or build
    discarded       \* history: builds that settled after being superseded,
                    \* each with the build whose maps were in place then

vars == <<in, out, urnId, imageDataUrl, userScale, bbox, urnScale, face, stlError,
          geometry, loads, loadSeq, reliefMounted, maps, builds, buildSeq,
          crashed, camera, lastFailure, discarded>>

appVars == <<urnId, imageDataUrl, userScale, bbox, urnScale, face, stlError,
             geometry, loads, loadSeq, reliefMounted, maps, builds, buildSeq,
             crashed, camera, lastFailure, discarded>>

Null == "null"

\* ------------------------------------------------------------------
\* Program constants (units of 1e-4)
\* ------------------------------------------------------------------
eps == 6
margin == 20
LargestLimit == 30000
DefaultWidthMm == 100
DefaultHeightMm == 120
UnitsPerMm == 10

FaceCodes == {"+X", "-X", "+Y", "-Y", "+Z", "-Z"}

\* ------------------------------------------------------------------
\* Rationals and vectors
\* ------------------------------------------------------------------
Max(a, b) == IF a >= b THEN a ELSE b

Rat(n, d) == [n |-> n, d |-> d]

RLess(a, b) == a.n * b.d < b.n * a.d

RLeq(a, b) == a.n * b.d <= b.n * a.d

REq(a, b) == a.n * b.d = b.n * a.d

\* Math.min on two numbers
RMin(a, b) == IF RLess(b, a) THEN b ELSE a

RMax(a, b) == IF RLess(a, b) THEN b ELSE a

Cross(a, b) == << a[2] * b[3] - a[3] * b[2],
                  a[3] * b[1] - a[1] * b[3],
                  a[1] * b[2] - a[2] * b[1] >>

Dot(a, b) == a[1] * b[1] + a[2] * b[2] + a[3] * b[3]

LengthSq(v) == Dot(v, v)

ISqrt(n) == CHOOSE r \in 0..n : r * r <= n /\ (r + 1) * (r + 1) > n

\* Vector3.normalize: divideScalar(length() || 1).  Exact for the vectors
\* of this model, whose length is 0 or a whole number.
Normalize(v) ==
    LET l == ISqrt(LengthSq(v))
        k == IF l = 0 THEN 1 ELSE l
    IN  << v[1] \div k, v[2] \div k, v[3] \div k >>

\* Box3.getSize / getCenter (doubled)
GetSize(b) == << b.max[1] - b.min[1], b.max[2] - b.min[2], b.max[3] - b.min[3] >>

GetCenter2(b) == << b.min[1] + b.max[1], b.min[2] + b.max[2], b.min[3] + b.max[3] >>

\* ------------------------------------------------------------------
\* FacePlacer
\* ------------------------------------------------------------------
faceSizeFor(b, f) ==
    LET s == GetSize(b)
    IN  CASE f \in {"+X", "-X"} -> [u |-> s[3], v |-> s[2]]
          [] f \in {"+Y", "-Y"} -> [u |-> s[1], v |-> s[3]]
          [] OTHER              -> [u |-> s[1], v |-> s[2]]

\* The basis construction after the switch: right = up x normal, with the
\* (1,0,0) fallback, then up = normal x right.
makeBasis(up, normal) ==
    LET right0 == Cross(up, normal)
        right1 == IF LengthSq(right0) = 0 THEN Cross(<<1, 0, 0>>, normal) ELSE right0
        right  == Normalize(right1)
        up2    == Normalize(Cross(normal, right))
    IN  [right |-> right, up |-> up2, normal |-> normal]

\* The +X, -X, +Y and -Y cases call rot.set(...) on a name that is declared
\* nowhere in scope: evaluating it raises a ReferenceError before targetW,
\* targetH are assigned, so the call does not return.
facePlacement(b, f) ==
    LET size    == GetSize(b)
        center2 == GetCenter2(b)
    IN  CASE f \in {"+X", "-X", "+Y", "-Y"} -> [thrown |-> TRUE]
          [] f = "+Z" ->
                [thrown |-> FALSE,
                 pos2 |-> [center2 EXCEPT ![3] = 2 * (b.max[3] + eps)],
                 basis |-> makeBasis(<<0, 1, 0>>, <<0, 0, 1>>),
                 targetW |-> size[1], targetH |-> size[2]]
          [] f = "-Z" ->
                [thrown |-> FALSE,
                 pos2 |-> [center2 EXCEPT ![3] = 2 * (b.min[3] - eps)],
                 basis |-> makeBasis(<<0, 1, 0>>, <<0, 0, -1>>),
                 targetW |-> size[1], targetH |-> size[2]]

\* ------------------------------------------------------------------
\* Mesh auto-scale (UrnMesh load callback)
\* ------------------------------------------------------------------
Max3(v) == Max(v[1], Max(v[2], v[3]))

\* faulty variant: the threshold is inclusive
ScaleFor_Inclusive(b) ==
    IF Max3(GetSize(b)) >= LargestLimit THEN [num |-> 1, den |-> 1000]
                                        ELSE [num |-> 1, den |-> 1]

\* scl = largest > 3 ? 0.001 : 1
ScaleFor(b) ==
    IF Max3(GetSize(b)) > LargestLimit THEN [num |-> 1, den |-> 1000]
                                       ELSE [num |-> 1, den |-> 1]

\* x * urnScale; exact for the boxes of this model (millimetre boxes have
\* coordinates that are multiples of 1000)
ScaleLen(x, scl) == (x * scl.num) \div scl.den

\* ------------------------------------------------------------------
\* FitPlanner: the fit decision of ThreePreview's render
\* ------------------------------------------------------------------
\* faceBoxMeters = { w: fs.u * urnScale, h: fs.v * urnScale }
FaceBoxMeters(b, f, scl) ==
    LET fs == faceSizeFor(b, f)
    IN  [w |-> ScaleLen(fs.u, scl), h |-> ScaleLen(fs.v, scl)]

\* target.width_mm / 1000 and target.height_mm / 1000, in units of 1e-4 m
targetWm(target) == target.width_mm * UnitsPerMm

targetHm(target) == target.height_mm * UnitsPerMm

fit0(fb, target) ==
    RMin(Rat(fb.w - margin, targetWm(target)), Rat(fb.h - margin, targetHm(target)))

fit90(fb, target) ==
    RMin(Rat(fb.w - margin, targetHm(target)), Rat(fb.h - margin, targetWm(target)))

\* faulty variant: the comparison reversed (fit90 < fit0)
autoRotateZDeg_Reversed(fb, target) ==
    IF RLess(fit90(fb, target), fit0(fb, target)) THEN 90 ELSE 0

\* isFinite(fit90) && fit90 > fit0 ? 90 : 0   (fit90 is finite: the targets
\* of this model are positive)
autoRotateZDeg(fb, target) ==
    IF RLess(fit0(fb, target), fit90(fb, target)) THEN 90 ELSE 0

\* ------------------------------------------------------------------
\* ReliefPlane: plane sizing from its props
\* ------------------------------------------------------------------
\* faulty variant: the height ratio left out of the minimum
ReliefScale_WidthOnly(availW, availH, rotated) ==
    RMin(Rat(availW, rotated.w), Rat(1, 1))

\* s = Math.min(availW / rotated.w, availH / rotated.h, 1.0)
ReliefScale(availW, availH, rotated) ==
    RMin(RMin(Rat(availW, rotated.w), Rat(availH, rotated.h)), Rat(1, 1))

\* planeW = rotated.w * s * userScale, userScale in percent
PlaneDim(len, s, us) == Rat(len * s.n * us, s.d * 100)

ReliefPlane(faceBoxMeters, auto, target, us) ==
    LET designW == targetWm(target)
        designH == targetHm(target)
        rotated == IF auto = 90 THEN [w |-> designH, h |-> designW]
                                ELSE [w |-> designW, h |-> designH]
        availW  == Max(0, faceBoxMeters.w - margin)
        availH  == Max(0, faceBoxMeters.h - margin)
        s       == ReliefScale(availW, availH, rotated)
    IN  [availW |-> availW, availH |-> availH, rotated |-> rotated, s |-> s,
         planeW |-> PlaneDim(rotated.w, s, us),
         planeH |-> PlaneDim(rotated.h, s, us)]

\* One render of ThreePreview with an urn, an image and a bounding box
\* present: the fit decision, then facePlacement, then the ReliefPlane
\* element.  A throw in facePlacement aborts the render.
RenderPreview(b, scl, f, target, us) ==
    LET fb   == FaceBoxMeters(b, f, scl)
        auto == autoRotateZDeg(fb, target)
        fp   == facePlacement(b, f)
    IN  IF fp.thrown
        THEN [thrown |-> TRUE, faceBoxMeters |-> fb,
              fit0 |-> fit0(fb, target), fit90 |-> fit90(fb, target),
              autoRotateZDeg |-> auto]
        ELSE [thrown |-> FALSE, faceBoxMeters |-> fb,
              fit0 |-> fit0(fb, target), fit90 |-> fit90(fb, target),
              autoRotateZDeg |-> auto, placement |-> fp,
              reliefBox |-> [w |-> ScaleLen(fp.targetW, scl), h |-> ScaleLen(fp.targetH, scl)],
              relief |-> ReliefPlane([w |-> ScaleLen(fp.targetW, scl),
                                      h |-> ScaleLen(fp.targetH, scl)],
                                     auto, target, us)]

\* ------------------------------------------------------------------
\* Inputs of the pure-function harness
\* ------------------------------------------------------------------
Sizes == {0, 10, 20, 1020, 1220, 3000}

Mins == { <<0, 0, 0>>, <<-500, 40, -7>> }

Box(mn, sz) == [min |-> mn, max |-> << mn[1] + sz[1], mn[2] + sz[2], mn[3] + sz[3] >>]

\* boxes with min <= max componentwise; the last two are the 0.2 x 0.3 x 0.15
\* box in metres and the same urn authored in millimetres
Boxes ==
    { Box(mn, <<x, y, z>>) : mn \in Mins, x \in Sizes, y \in Sizes, z \in Sizes }
    \cup { Box(<<0, 0, 0>>, <<2000, 3000, 1500>>),
           Box(<<-1000000, 0, 0>>, <<2000000, 3000000, 1500000>>) }

Targets == { [width_mm |-> DefaultWidthMm, height_mm |-> DefaultHeightMm],
             [width_mm |-> 50, height_mm |-> 150],
             [width_mm |-> 120, height_mm |-> 100] }

\* the scale slider: min 0.5, max 1.5, step 0.01 (percent)
ScaleMin == 50
ScaleMax == 150
UserScales == {ScaleMin, 99, 100, 101, ScaleMax}

AutoValues == {0, 90}

NoCall == [op |-> "none"]

\* useState(null) for bbox, geometry and maps; no failure recorded yet
NoBox == [urn |-> Null, load |-> 0]

NoMaps == [image |-> Null, build |-> 0]

NoFailure == [kind |-> Null, cause |-> Null, id |-> 0]

AppInitState ==
    /\ urnId = Null
    /\ imageDataUrl = Null
    /\ userScale = 100
    /\ bbox = NoBox
    /\ urnScale = [num |-> 1, den |-> 1]
    /\ face = Null
    /\ stlError = Null
    /\ geometry = NoBox
    /\ loads = {}
    /\ loadSeq = 0
    /\ reliefMounted = FALSE
    /\ maps = NoMaps
    /\ builds = {}
    /\ buildSeq = 0
    /\ crashed = FALSE
    /\ camera = "default"
    /\ lastFailure = NoFailure
    /\ discarded = {}

FitInit ==
    /\ in \in [bbox : Boxes, face : FaceCodes, target : Targets,
               userScale : UserScales, auto : AutoValues]
    /\ out = NoCall
    /\ AppInitState

CallFaceSizeFor ==
    /\ out = NoCall
    /\ out' = [op |-> "faceSizeFor", ret |-> faceSizeFor(in.bbox, in.face)]
    /\ UNCHANGED <<in, appVars>>

CallFacePlacement ==
    /\ out = NoCall
    /\ out' = [op |-> "facePlacement", ret |-> facePlacement(in.bbox, in.face)]
    /\ UNCHANGED <<in, appVars>>

\* ReliefPlane rendered with the drawn props
CallReliefPlane ==
    /\ out = NoCall
    /\ out' = [op |-> "ReliefPlane",
               ret |-> ReliefPlane(FaceBoxMeters(in.bbox, in.face, ScaleFor(in.bbox)),
                                   in.auto, in.target, in.userScale)]
    /\ UNCHANGED <<in, appVars>>

CallRenderPreview ==
    /\ out = NoCall
    /\ out' = [op |-> "ThreePreview",
               ret |-> RenderPreview(in.bbox, ScaleFor(in.bbox), in.face,
                                     in.target, in.userScale)]
    /\ UNCHANGED <<in, appVars>>

\* useFrame: m.rotation.z = zAuto + zUser + zExtra, in degrees
RotationZDeg(auto, rotation, imageRotateDeg) == auto + rotation + (imageRotateDeg % 360)

\* the extent along the face's width and height of a planeW x planeH plane
\* turned by a multiple of 90 degrees about its normal
Footprint(planeW, planeH, deg) ==
    IF deg % 180 = 0 THEN [w |-> planeW, h |-> planeH]
                     ELSE [w |-> planeH, h |-> planeW]

\* ThreePreview rendered with the drawn props and one frame drawn with
\* rotation 0 and imageRotateDeg 0: the plane geometry of the render, turned
\* by the frame callback
CallUseFrame ==
    /\ out = NoCall
    /\ LET r == RenderPreview(in.bbox, ScaleFor(in.bbox), in.face,
                              in.target, in.userScale)
       IN  out' = [op |-> "useFrame",
                   ret |-> IF r.thrown THEN [thrown |-> TRUE]
                           ELSE LET deg == RotationZDeg(r.autoRotateZDeg, 0, 0)
                                IN  [thrown |-> FALSE,
                                     autoRotateZDeg |-> r.autoRotateZDeg,
                                     relief |-> r.relief,
                                     rotationZ |-> deg,
                                     footprint |-> Footprint(r.relief.planeW,
                                                             r.relief.planeH, deg)]]
    /\ UNCHANGED <<in, appVars>>

FitNext ==
    \/ CallFaceSizeFor
    \/ CallFacePlacement
    \/ CallReliefPlane
    \/ CallRenderPreview
    \/ CallUseFrame

FitSpec == FitInit /\ [][FitNext]_vars

\* ------------------------------------------------------------------
\* Claims about the pure functions (checked under FitSpec)
\* ------------------------------------------------------------------
Orthonormal(bs) ==
    /\ Dot(bs.right, bs.up) = 0
    /\ Dot(bs.right, bs.normal) = 0
    /\ Dot(bs.up, bs.normal) = 0
    /\ LengthSq(bs.right) = 1
    /\ LengthSq(bs.up) = 1
    /\ LengthSq(bs.normal) = 1

OutwardNormal(f) ==
    CASE f = "+X" -> <<1, 0, 0>>
      [] f = "-X" -> <<-1, 0, 0>>
      [] f = "+Y" -> <<0, 1, 0>>
      [] f = "-Y" -> <<0, -1, 0>>
      [] f = "+Z" -> <<0, 0, 1>>
      [] f = "-Z" -> <<0, 0, -1>>

FaceAxis(f) == CASE f \in {"+X", "-X"} -> 1 [] f \in {"+Y", "-Y"} -> 2 [] OTHER -> 3

\* twice the point on the face's plane, pushed outward by eps, centred in
\* the other two coordinates
ExpectedPos2(b, f) ==
    LET a == FaceAxis(f)
    IN  [GetCenter2(b) EXCEPT ![a] =
            IF f \in {"+X", "+Y", "+Z"} THEN 2 * (b.max[a] + eps)
                                        ELSE 2 * (b.min[a] - eps)]

\* the fixed table of face dimensions
FaceTable(b, f) ==
    LET s == GetSize(b)
    IN  CASE f \in {"+X", "-X"} -> <<s[3], s[2]>>
          [] f \in {"+Y", "-Y"} -> <<s[1], s[3]>>
          [] f \in {"+Z", "-Z"} -> <<s[1], s[2]>>

\* C1 (as claimed): for every box with min <= max and each of the six faces,
\* facePlacement returns normally and its right, up, normal are unit
\* vectors that are pairwise perpendicular.
C1_Claim ==
    out.op = "facePlacement" =>
        /\ ~out.ret.thrown
        /\ Orthonormal(out.ret.basis)

\* C2 (as claimed): for each of the six faces the basis normal is the
\* outward unit normal of the face and the position lies on the face's
\* plane pushed outward by eps, centred in the other two coordinates.
C2_Claim ==
    out.op = "facePlacement" =>
        /\ ~out.ret.thrown
        /\ out.ret.basis.normal = OutwardNormal(in.face)
        /\ out.ret.pos2 = ExpectedPos2(in.bbox, in.face)

\* C3 (as claimed): faceSizeFor follows the fixed table, and the
\* (targetW, targetH) of facePlacement for the same face is the same pair.
C3_Claim ==
    /\ out.op = "faceSizeFor" =>
            <<out.ret.u, out.ret.v>> = FaceTable(in.bbox, in.face)
    /\ out.op = "facePlacement" =>
            /\ ~out.ret.thrown
            /\ <<out.ret.targetW, out.ret.targetH>> = FaceTable(in.bbox, in.face)
    /\ out.op = "ThreePreview" =>
            /\ ~out.ret.thrown
            /\ out.ret.reliefBox = out.ret.faceBoxMeters

PlaneFits(r) ==
    /\ RLeq(r.planeW, Rat(r.availW, 1))
    /\ RLeq(r.planeH, Rat(r.availH, 1))

\* C4 (as claimed): for every face size, positive design size, either
\* auto-rotation value and every user scale of the slider (0.5 to 1.5),
\* planeW and planeH never exceed the available width and height.
C4_Claim ==
    out.op = "ReliefPlane" => PlaneFits(out.ret)

\* C4 (amended): the same, for user scales of at most 1.0.
C4_Amended ==
    /\ (out.op = "ReliefPlane" /\ in.userScale <= 100) => PlaneFits(out.ret)
    /\ (out.op = "ThreePreview" /\ in.userScale <= 100 /\ ~out.ret.thrown) =>
            PlaneFits(out.ret.relief)

\* the fit binds in width under rotation 90 at user scale 1: planeW = availW
C4_Witness ==
    /\ out.op = "ReliefPlane"
    /\ in.userScale = 100
    /\ in.auto = 90
    /\ out.ret.availW > 0
    /\ RLess(out.ret.s, Rat(1, 1))
    /\ REq(out.ret.planeW, Rat(out.ret.availW, 1))

\* available (0.10, 0.12) is a face of (0.102, 0.122); design (0.05, 0.15)
C5_Input ==
    /\ out.op = "ThreePreview"
    /\ out.ret.faceBoxMeters = [w |-> 1000 + margin, h |-> 1200 + margin]
    /\ in.target = [width_mm |-> 50, height_mm |-> 150]

\* C5 (as claimed): available (0.10, 0.12), design (0.05, 0.15): the
\* decision is 90 degrees because fit90 exceeds fit0.
C5_Claim ==
    C5_Input =>
        /\ out.ret.autoRotateZDeg = 90
        /\ RLess(out.ret.fit0, out.ret.fit90)

\* C5 (amended): for that input fit0 = 0.8 exceeds fit90 = 2/3 and the
\* decision is 0 degrees.
C5_Amended ==
    C5_Input =>
        /\ out.ret.autoRotateZDeg = 0
        /\ REq(out.ret.fit0, Rat(4, 5))
        /\ REq(out.ret.fit90, Rat(2, 3))
        /\ RLess(out.ret.fit90, out.ret.fit0)

C5_Witness == C5_Input /\ in.face = "+Z"

\* C6 (as claimed): with positive available area the decision is 90 exactly
\* when fit90 > fit0, the automatic scale is min(1, max(fit0, fit90)), and
\* box (0.2, 0.3, 0.15), face +Y, design (0.1, 0.12) gives 90 and scale 1.
C6_Claim ==
    (/\ out.op = "ThreePreview"
     /\ out.ret.faceBoxMeters.w > margin
     /\ out.ret.faceBoxMeters.h > margin) =>
        /\ (out.ret.autoRotateZDeg = 90) <=> RLess(out.ret.fit0, out.ret.fit90)
        /\ ~out.ret.thrown
        /\ REq(out.ret.relief.s,
               RMin(Rat(1, 1), RMax(out.ret.fit0, out.ret.fit90)))
        /\ (/\ GetSize(in.bbox) = <<2000, 3000, 1500>>
            /\ in.face = "+Y"
            /\ in.target = [width_mm |-> 100, height_mm |-> 120]) =>
                /\ out.ret.autoRotateZDeg = 90
                /\ REq(out.ret.relief.s, Rat(1, 1))

\* C7 (as claimed): when the face is no larger than the margin in an axis,
\* the fit ratio of both orientations is zero, the decision is 0 degrees
\* and the plane has zero size.
C7_Claim ==
    (/\ out.op = "ThreePreview"
     /\ \/ out.ret.faceBoxMeters.w <= margin
        \/ out.ret.faceBoxMeters.h <= margin) =>
        /\ out.ret.autoRotateZDeg = 0
        /\ REq(RMax(out.ret.fit0, out.ret.fit90), Rat(0, 1))
        /\ ~out.ret.thrown =>
                /\ REq(out.ret.relief.s, Rat(0, 1))
                /\ REq(out.ret.relief.planeW, Rat(0, 1))
                /\ REq(out.ret.relief.planeH, Rat(0, 1))

\* C18 (as claimed): with user scale 1, user rotation 0 and no extra image
\* rotation, the relief's footprint on the face after the per-frame Z
\* rotation stays within the available face area in both axes, for either
\* auto-rotation value (for 90 the plane is sized from the swapped design
\* dimensions and the mesh is also turned by 90 degrees).
C18_Claim ==
    (out.op = "useFrame" /\ in.userScale = 100 /\ ~out.ret.thrown) =>
        /\ RLeq(out.ret.footprint.w, Rat(out.ret.relief.availW, 1))
        /\ RLeq(out.ret.footprint.h, Rat(out.ret.relief.availH, 1))

\* ------------------------------------------------------------------
\* Camera fitting and mesh intake (MeshSpec)
\*
\* Distances are lengths in units of 1e-4 like the box; the diagonal is the
\* whole part of the square root.  near, far, minDistance and maxDistance
\* are rationals; maxDistance = Infinity is [n |-> 1, d |-> 0].  Camera
\* position and controls target are kept multiplied by 10000, with the view
\* direction (1, 1.05, 1).normalize() rounded to two decimals.
\* ------------------------------------------------------------------
RECURSIVE SqrtBetween(_, _, _)
SqrtBetween(n, lo, hi) ==
    IF lo = hi THEN lo
    ELSE LET mid == (lo + hi + 1) \div 2
         IN  IF mid * mid <= n THEN SqrtBetween(n, mid, hi)
                               ELSE SqrtBetween(n, lo, mid - 1)

\* Math.sqrt, whole part
SqrtFloor(n) == SqrtBetween(n, 0, 46340)

\* new THREE.Vector3(1, 1.05, 1).normalize(), in hundredths
DirCenti == <<57, 60, 57>>

\* bbox.clone() with min and max multiplied by urnScale
Scaled(b, scl) ==
    [min |-> << ScaleLen(b.min[1], scl), ScaleLen(b.min[2], scl), ScaleLen(b.min[3], scl) >>,
     max |-> << ScaleLen(b.max[1], scl), ScaleLen(b.max[2], scl), ScaleLen(b.max[3], scl) >>]

\* const diag = size.length() || 1
Diag(b) ==
    LET l == SqrtFloor(LengthSq(GetSize(b)))
    IN  IF l = 0 THEN 10000 ELSE l

\* center + dir * dist, dist100 being the distance in hundredths of a unit
PositionAt(center2, dist100) ==
    << 5000 * center2[1] + DirCenti[1] * dist100,
       5000 * center2[2] + DirCenti[2] * dist100,
       5000 * center2[3] + DirCenti[3] * dist100 >>

\* controls.update() with no pointer input pending: the camera is put back
\* on the ray from the target through its position, at the distance clamped
\* into [minDistance, maxDistance]
ControlsUpdate(center2, diag, paddingK) ==
    LET dist100 == diag * paddingK * 10
        min100  == diag * 35
        max100  == diag * 600
    IN  PositionAt(center2, IF dist100 < min100 THEN min100
                            ELSE IF dist100 > max100 THEN max100 ELSE dist100)

\* camera.near = Math.max(diag / 500, 0.001)
cameraNear(diag) == RMax(Rat(diag, 500), Rat(10, 1))

\* faulty variant: the far plane at 5 diagonals
cameraFar_Short(diag) == RMax(Rat(diag * 5, 1), Rat(100000, 1))

\* camera.far = Math.max(diag * 50, 10)
cameraFar(diag) == RMax(Rat(diag * 50, 1), Rat(100000, 1))

\* faulty variant: the position is moved from where the camera was instead
\* of from the centre of the box
simpleFit_FromCamera(cam, controls, b, paddingK) ==
    LET center2 == GetCenter2(b)
        diag    == Diag(b)
        moved   == << cam.position[1] + DirCenti[1] * diag * paddingK * 10,
                      cam.position[2] + DirCenti[2] * diag * paddingK * 10,
                      cam.position[3] + DirCenti[3] * diag * paddingK * 10 >>
    IN  [camera |-> [cam EXCEPT !.position = moved,
                                   !.near = cameraNear(diag),
                                   !.far = cameraFar(diag)],
         controls |-> IF controls.present
                      THEN [controls EXCEPT
                                !.target = PositionAt(center2, 0),
                                !.minDistance = Rat(diag * 35, 100),
                                !.maxDistance = Rat(diag * 6, 1)]
                      ELSE controls,
         diag |-> diag,
         dist |-> Rat(diag * paddingK, 10)]

\* simpleFit(camera, controls, bbox, paddingK), paddingK in tenths.  The
\* fields it does not assign (fov) keep their value; without controls only
\* the camera is written.
simpleFit(cam, controls, b, paddingK) ==
    LET center2 == GetCenter2(b)
        diag    == Diag(b)
        placed  == PositionAt(center2, diag * paddingK * 10)
    IN  [camera |-> [cam EXCEPT
                        !.position = IF controls.present
                                     THEN ControlsUpdate(center2, diag, paddingK)
                                     ELSE placed,
                        !.near = cameraNear(diag),
                        !.far = cameraFar(diag)],
         controls |-> IF controls.present
                      THEN [controls EXCEPT
                                !.target = PositionAt(center2, 0),
                                !.minDistance = Rat(diag * 35, 100),
                                !.maxDistance = Rat(diag * 6, 1)]
                      ELSE controls,
         diag |-> diag,
         dist |-> Rat(diag * paddingK, 10)]

\* <Canvas camera={{ fov: 44 }}>: position (0, 0, 5), near 0.1, far 1000
DefaultCamera ==
    [position |-> <<0, 0, 500000000>>, near |-> Rat(1000, 1),
     far |-> Rat(10000000, 1), fov |-> 44]

\* OrbitControls as constructed: target at the origin, distance unbounded
DefaultControls ==
    [present |-> TRUE, target |-> <<0, 0, 0>>,
     minDistance |-> Rat(0, 1), maxDistance |-> Rat(1, 0)]

\* controlsRef.current is still null
NoControls ==
    [present |-> FALSE, target |-> <<0, 0, 0>>,
     minDistance |-> Rat(0, 1), maxDistance |-> Rat(1, 0)]

\* a camera the user has orbited and panned after an earlier fit
OrbitedCamera ==
    [position |-> <<-12000000, 34000000, 5000000>>, near |-> Rat(10, 1),
     far |-> Rat(200000, 1), fov |-> 44]

OrbitedControls ==
    [present |-> TRUE, target |-> <<1000000, -2000000, 0>>,
     minDistance |-> Rat(1400, 1), maxDistance |-> Rat(24000, 1)]

\* ---- UrnMesh: the load callback ----
\* one quarter turn about each axis (makeRotationFromEuler for 90 degrees)
RotX(p) == << p[1], -p[3], p[2] >>

RotY(p) == << p[3], p[2], -p[1] >>

RotZ(p) == << -p[2], p[1], p[3] >>

RECURSIVE Turns(_, _, _)
Turns(axis, k, p) ==
    IF k = 0 THEN p
    ELSE Turns(axis, k - 1,
               CASE axis = 1 -> RotX(p) [] axis = 2 -> RotY(p) [] OTHER -> RotZ(p))

\* makeScale(mir.x ? -1 : 1, mir.y ? -1 : 1, mir.z ? -1 : 1)
Mirror(mir, p) ==
    << IF mir.x THEN -p[1] ELSE p[1],
       IF mir.y THEN -p[2] ELSE p[2],
       IF mir.z THEN -p[3] ELSE p[3] >>

\* mat = I * R * S with R = Rx * Ry * Rz (Euler order 'XYZ'), applied to a
\* point: the mirroring first, then the turns about Z, Y and X
ApplyMatrix(o, p) ==
    Turns(1, o.rotate_deg.x \div 90,
          Turns(2, o.rotate_deg.y \div 90,
                Turns(3, o.rotate_deg.z \div 90, Mirror(o.mirror, p))))

Min(a, b) == IF a <= b THEN a ELSE b

\* the box of the mesh as rendered inside <group matrix={matrix}>
RenderedBox(b, o) ==
    LET p == ApplyMatrix(o, b.min)
        q == ApplyMatrix(o, b.max)
    IN  [min |-> << Min(p[1], q[1]), Min(p[2], q[2]), Min(p[3], q[3]) >>,
         max |-> << Max(p[1], q[1]), Max(p[2], q[2]), Max(p[3], q[3]) >>]

\* The success callback of loader.load for a geometry whose boundingBox is b
\* under orientation o, in the order of its statements: setScale(scl),
\* setMatrix(mat), onReady({bbox, scale, matrix}), setGeometry(g).  bbox is
\* g.boundingBox, the box of the geometry as loaded.
LoadCallback(b, o) ==
    LET scl == ScaleFor(b)
    IN  [calls |-> << "setScale", "setMatrix", "onReady", "setGeometry" >>,
         scale |-> scl,
         onReady |-> [bbox |-> b, scale |-> scl, matrix |-> o],
         rendered |-> [box |-> RenderedBox(b, o), scale |-> scl]]

\* ------------------------------------------------------------------
\* Inputs of the mesh harness
\* ------------------------------------------------------------------
\* the boxes of the fit harness, and boxes whose largest dimension is 2,
\* exactly 3, 3.1 and 50
MeshBoxes ==
    Boxes \cup { Box(<<0, 0, 0>>, <<20000, 1000, 1000>>),
                 Box(<<0, 0, 0>>, <<1000, 30000, 1000>>),
                 Box(<<0, 0, 0>>, <<31000, 1000, 1000>>),
                 Box(<<-1000, 0, 0>>, <<20000, 1000, 500000>>) }

NoTurn == [x |-> 0, y |-> 0, z |-> 0]

NoMirror == [x |-> FALSE, y |-> FALSE, z |-> FALSE]

Orientations ==
    { [rotate_deg |-> NoTurn, mirror |-> NoMirror],
      [rotate_deg |-> [x |-> 90, y |-> 0, z |-> 0], mirror |-> NoMirror],
      [rotate_deg |-> NoTurn, mirror |-> [x |-> TRUE, y |-> FALSE, z |-> FALSE]],
      [rotate_deg |-> [x |-> 0, y |-> 180, z |-> 90],
       mirror |-> [x |-> FALSE, y |-> TRUE, z |-> FALSE]] }

\* paddingK in tenths: the callers' 2.0, and values outside [0.35, 6]
Paddings == {20, 2, 70}

Rigs == { [camera |-> DefaultCamera, controls |-> DefaultControls],
          [camera |-> OrbitedCamera, controls |-> OrbitedControls],
          [camera |-> DefaultCamera, controls |-> NoControls] }

MeshInit ==
    /\ in \in [bbox : MeshBoxes, orientation : Orientations,
               paddingK : Paddings, rig : Rigs]
    /\ out = NoCall
    /\ AppInitState

\* simpleFit called twice in a row on the box the callers pass (the box
\* multiplied by the urn's scale)
CallSimpleFit ==
    /\ out = NoCall
    /\ LET b     == Scaled(in.bbox, ScaleFor(in.bbox))
           once  == simpleFit(in.rig.camera, in.rig.controls, b, in.paddingK)
           twice == simpleFit(once.camera, once.controls, b, in.paddingK)
       IN  out' = [op |-> "simpleFit", ret |-> [once |-> once, twice |-> twice]]
    /\ UNCHANGED <<in, appVars>>

\* the STL of the drawn box and orientation finishes loading
CallLoadCallback ==
    /\ out = NoCall
    /\ out' = [op |-> "load", ret |-> LoadCallback(in.bbox, in.orientation)]
    /\ UNCHANGED <<in, appVars>>

MeshNext ==
    \/ CallSimpleFit
    \/ CallLoadCallback

MeshSpec == MeshInit /\ [][MeshNext]_vars

\* ------------------------------------------------------------------
\* Claims about camera fitting and mesh intake (checked under MeshSpec)
\* ------------------------------------------------------------------
\* the fields the fit is claimed to determine
FitView(r) ==
    [position |-> r.camera.position, near |-> r.camera.near, far |-> r.camera.far,
     target |-> r.controls.target, minDistance |-> r.controls.minDistance,
     maxDistance |-> r.controls.maxDistance]

\* C11: simpleFit is idempotent: for every bounding box (the zero-size box
\* included) and padding, a second call leaves camera position, near, far,
\* controls target and min/max distance as the first call left them, and
\* that state depends only on the box and the padding, not on the state of
\* the camera and controls before the call.
C11_Idempotent ==
    out.op = "simpleFit" =>
        /\ FitView(out.ret.twice) = FitView(out.ret.once)
        /\ \A r \in Rigs :
              r.controls.present = in.rig.controls.present =>
                  FitView(simpleFit(r.camera, r.controls,
                                    Scaled(in.bbox, ScaleFor(in.bbox)), in.paddingK))
                      = FitView(out.ret.once)

\* the zero-size box, fitted from an orbited camera: the diagonal is 1
C11_Witness ==
    /\ out.op = "simpleFit"
    /\ GetSize(in.bbox) = <<0, 0, 0>>
    /\ in.rig.camera = OrbitedCamera
    /\ out.ret.once.diag = 10000
    /\ out.ret.once.camera.position # in.rig.camera.position
    /\ out.ret.twice.camera.fov = in.rig.camera.fov

\* position of a call in the callback's sequence of calls (0 when absent)
CallIndex(calls, name) ==
    IF \E i \in 1..Len(calls) : calls[i] = name
    THEN CHOOSE i \in 1..Len(calls) : calls[i] = name
    ELSE 0

\* C12: the mesh scale is 0.001 exactly when the largest bounding-box
\* dimension is strictly greater than 3 units and 1 otherwise (exactly 3
\* gives 1, 50 gives 0.001, 2 gives 1), and it is set before onReady hands
\* the box, with that same scale, to placement and camera fitting.
C12_ScaleHeuristic ==
    out.op = "load" =>
        LET s == GetSize(in.bbox)
            over == s[1] > 30000 \/ s[2] > 30000 \/ s[3] > 30000
        IN  /\ out.ret.scale = IF over THEN [num |-> 1, den |-> 1000]
                                       ELSE [num |-> 1, den |-> 1]
            /\ out.ret.onReady.scale = out.ret.scale
            /\ out.ret.onReady.bbox = in.bbox
            /\ CallIndex(out.ret.calls, "setScale") > 0
            /\ CallIndex(out.ret.calls, "setScale") < CallIndex(out.ret.calls, "onReady")

\* a mesh whose largest dimension is exactly 3 is loaded and keeps scale 1
C12_Witness ==
    /\ out.op = "load"
    /\ Max3(GetSize(in.bbox)) = 30000
    /\ out.ret.onReady.scale = [num |-> 1, den |-> 1]

\* C14 (as claimed): for every orientation directive, a rotation of 90
\* degrees about X included, the bounding box handed to onReady (and used by
\* faceSizeFor, facePlacement and simpleFit) is the box of the mesh as
\* transformed by the rotation-then-mirror matrix and rendered, not the box
\* of the untransformed geometry.
C14_Claim ==
    out.op = "load" => out.ret.onReady.bbox = out.ret.rendered.box

\* near < far, the far plane holds the farthest orbit plus half the
\* diagonal, and the fitted distance for padding 2.0 lies within the zoom range
ClipOrder(r) ==
    /\ RLess(r.camera.near, r.camera.far)
    /\ RLeq(Rat(2 * r.controls.maxDistance.n + r.diag * r.controls.maxDistance.d,
                2 * r.controls.maxDistance.d),
            r.camera.far)
    /\ in.paddingK = 20 =>
            /\ RLeq(r.controls.minDistance, r.dist)
            /\ RLeq(r.dist, r.controls.maxDistance)

\* C15 (as claimed): after simpleFit on any bounding box, however small or
\* large, near < far, near <= minDistance (0.35 x diag), maxDistance
\* (6 x diag) plus half the diagonal <= far, and with padding 2.0 the
\* fitted camera distance lies between min and max distance.
C15_Claim ==
    (out.op = "simpleFit" /\ in.rig.controls.present) =>
        /\ ClipOrder(out.ret.once)
        /\ RLeq(out.ret.once.camera.near, out.ret.once.controls.minDistance)

\* C15 (amended): the same, with near <= minDistance for boxes whose
\* diagonal is at least 0.001 / 0.35 (about 0.0029); below that the near
\* plane's floor of 0.001 is farther than the closest zoom.
C15_Amended ==
    (out.op = "simpleFit" /\ in.rig.controls.present) =>
        /\ ClipOrder(out.ret.once)
        /\ 35 * out.ret.once.diag >= 1000 =>
              RLeq(out.ret.once.camera.near, out.ret.once.controls.minDistance)
        /\ 35 * out.ret.once.diag < 1000 =>
              RLess(out.ret.once.controls.minDistance, out.ret.once.camera.near)

\* a box of diagonal 0.003 fitted with padding 2.0: near sits on its floor
\* of 0.001, just inside the closest zoom of 0.00105
C15_Witness ==
    /\ out.op = "simpleFit"
    /\ in.rig.controls.present
    /\ in.paddingK = 20
    /\ out.ret.once.diag = 30
    /\ REq(out.ret.once.camera.near, Rat(10, 1))
    /\ REq(out.ret.once.controls.minDistance, Rat(105, 10))

\* ------------------------------------------------------------------
\* buildMaps: displacement and normal fields of an image (MapsSpec)
\*
\* An image is [w, h, data], data the row-major sequence of <<r, g, b>>
\* bytes that getImageData returns.  Luminance is kept in units of 2e-4 of
\* a byte level (exact); the normalised field is fixed-point in thousandths
\* of [0, 1], each division taking the whole part.
\* ------------------------------------------------------------------
\* lum[j] = 0.2126 * r + 0.7152 * g + 0.0722 * b, in units of 2e-4
Luminance(px) == 1063 * px[1] + 3576 * px[2] + 361 * px[3]

\* sorted[k] of the sorted copy, k counted from 0
SortedAt(vals, k) ==
    CHOOSE v \in { vals[i] : i \in DOMAIN vals } :
        /\ Cardinality({ i \in DOMAIN vals : vals[i] < v }) <= k
        /\ Cardinality({ i \in DOMAIN vals : vals[i] <= v }) > k

\* p(q) = sorted[Math.floor(q * (sorted.length - 1))], q in hundredths
Percentile(vals, q) == SortedAt(vals, (q * (Len(vals) - 1)) \div 100)

Clamp01(v) == IF v < 0 THEN 0 ELSE IF v > 1000 THEN 1000 ELSE v

\* Math.min(1, Math.max(0, (lum[i] - lo) / span)) with
\* span = Math.max(1e-6, hi - lo): when hi = lo the span is 1e-6 and any
\* positive difference saturates
Normalise(l, lo, hi) ==
    IF hi = lo THEN (IF l > lo THEN 1000 ELSE 0)
    ELSE Clamp01(((l - lo) * 1000) \div (hi - lo))

kernel == <<1, 4, 6, 4, 1>>

\* Math.min(n - 1, Math.max(0, i)) for an index counted from 0
ClampIndex(i, n) == IF i < 0 THEN 0 ELSE IF i > n - 1 THEN n - 1 ELSE i

\* the field value at column x, row y (both from 0)
At(f, w, x, y) == f[y * w + x + 1]

\* one pass of the 5-tap blur, acc / kernelSum with kernelSum = 16
BlurH(f, w, h) ==
    [j \in 1..(w * h) |->
        LET x == (j - 1) % w
            y == (j - 1) \div w
        IN  ( At(f, w, ClampIndex(x - 2, w), y) * kernel[1]
            + At(f, w, ClampIndex(x - 1, w), y) * kernel[2]
            + At(f, w, x, y) * kernel[3]
            + At(f, w, ClampIndex(x + 1, w), y) * kernel[4]
            + At(f, w, ClampIndex(x + 2, w), y) * kernel[5] ) \div 16]

BlurV(f, w, h) ==
    [j \in 1..(w * h) |->
        LET x == (j - 1) % w
            y == (j - 1) \div w
        IN  ( At(f, w, x, ClampIndex(y - 2, h)) * kernel[1]
            + At(f, w, x, ClampIndex(y - 1, h)) * kernel[2]
            + At(f, w, x, y) * kernel[3]
            + At(f, w, x, ClampIndex(y + 1, h)) * kernel[4]
            + At(f, w, x, ClampIndex(y + 2, h)) * kernel[5] ) \div 16]

\* Math.pow(v, 0.85) at v = 0, 0.1, ..., 1, in thousandths
PowTable == <<0, 141, 255, 359, 459, 555, 648, 738, 827, 914, 1000>>

\* Math.pow(v, 0.85), interpolated between the table's points
Pow085(v) ==
    IF v >= 1000 THEN 1000
    ELSE LET i == v \div 100
             f == v % 100
         IN  PowTable[i + 1] + ((PowTable[i + 2] - PowTable[i + 1]) * f) \div 100

\* the shaping of one texel: unsharp mask, clamp, gamma, smoothstep, gain
Shape(l, b) ==
    LET hp == l - b
        v1 == Clamp01(l + (12 * hp) \div 10)
        v2 == Pow085(v1)
        v3 == (v2 * v2 * (3000 - 2 * v2)) \div 1000000
        v4 == (v3 * 15) \div 10
    IN  IF v4 > 1000 THEN 1000 ELSE v4

\* faulty variant: the fraction is dropped instead of rounded
Round_Down(n, d) == n \div d

\* Math.round(n / d) for d > 0: halves go up
Round(n, d) == (2 * n + d) \div (2 * d)

\* the normal of one texel from the Sobel gradients, as three bytes
NormalAt(f, w, h, x, y) ==
    LET tl == At(f, w, ClampIndex(x - 1, w), ClampIndex(y - 1, h))
        t  == At(f, w, x, ClampIndex(y - 1, h))
        tr == At(f, w, ClampIndex(x + 1, w), ClampIndex(y - 1, h))
        l  == At(f, w, ClampIndex(x - 1, w), y)
        r  == At(f, w, ClampIndex(x + 1, w), y)
        bl == At(f, w, ClampIndex(x - 1, w), ClampIndex(y + 1, h))
        b  == At(f, w, x, ClampIndex(y + 1, h))
        br == At(f, w, ClampIndex(x + 1, w), ClampIndex(y + 1, h))
        gx == tr + 2 * r + br - (tl + 2 * l + bl)
        gy == bl + 2 * b + br - (tl + 2 * t + tr)
        \* nx, ny, nz in hundredths
        nx == (0 - gx * 22) \div 100
        ny == (0 - gy * 22) \div 100
        nz == 100
        l0 == SqrtFloor(nx * nx + ny * ny + nz * nz)
        len == IF l0 = 0 THEN 100 ELSE l0
    IN  << Round(255 * (nx + len), 2 * len),
           Round(255 * (ny + len), 2 * len),
           Round(255 * (nz + len), 2 * len) >>

\* buildMaps after the image has loaded: the displacement bytes (one per
\* texel, written to r, g and b) and the normal bytes
buildMaps(img) ==
    LET w     == img.w
        h     == img.h
        lum   == [j \in 1..(w * h) |-> Luminance(img.data[j])]
        lo    == Percentile(lum, 4)
        hi    == Percentile(lum, 96)
        norm  == [j \in 1..(w * h) |-> Normalise(lum[j], lo, hi)]
        blur  == BlurV(BlurH(norm, w, h), w, h)
        field == [j \in 1..(w * h) |-> Shape(norm[j], blur[j])]
    IN  [w |-> w, h |-> h,
         disp |-> [j \in 1..(w * h) |-> Round(field[j] * 255, 1000)],
         normal |-> [j \in 1..(w * h) |->
                        NormalAt(field, w, h, (j - 1) % w, (j - 1) \div w)]]

\* ------------------------------------------------------------------
\* Inputs of the maps harness
\* ------------------------------------------------------------------
MaxSide == 6

Gray(g) == <<g, g, g>>

\* images of one colour, every size up to MaxSide x MaxSide
UniformPictures ==
    { [w |-> w, h |-> h, data |-> [j \in 1..(w * h) |-> Gray(g)]] :
        w \in 1..MaxSide, h \in 1..MaxSide, g \in {0, 1, 128, 255} }

\* small images of black, gray, white and red texels
MixedPictures ==
    UNION { { [w |-> w, h |-> h, data |-> d] :
                d \in [1..(w * h) -> {Gray(0), Gray(128), Gray(255), <<255, 0, 0>>}] } :
            w \in 1..3, h \in 1..2 }

Pictures == UniformPictures \cup MixedPictures

MapsInit ==
    /\ in \in [image : Pictures]
    /\ out = NoCall
    /\ AppInitState

\* buildMaps run twice on the drawn image
CallBuildMaps ==
    /\ out = NoCall
    /\ out' = [op |-> "buildMaps",
               ret |-> [first |-> buildMaps(in.image), second |-> buildMaps(in.image)]]
    /\ UNCHANGED <<in, appVars>>

MapsNext == CallBuildMaps

MapsSpec == MapsInit /\ [][MapsNext]_vars

\* ------------------------------------------------------------------
\* Claims about buildMaps (checked under MapsSpec)
\* ------------------------------------------------------------------
IsUniform(img) == \A j \in DOMAIN img.data : img.data[j] = img.data[1]

\* C13: for a uniform image of any size and gray level the displacement
\* field has the same value at every texel, every texel of the normal field
\* is (128, 128, 255), the encoding of (0, 0, 1), and a second run yields
\* the same two fields.
C13_FlatImage ==
    (out.op = "buildMaps" /\ IsUniform(in.image)) =>
        /\ DOMAIN out.ret.first.disp = 1..(in.image.w * in.image.h)
        /\ \A j \in DOMAIN out.ret.first.disp :
              out.ret.first.disp[j] = out.ret.first.disp[1]
        /\ \A j \in DOMAIN out.ret.first.normal :
              out.ret.first.normal[j] = <<128, 128, 255>>
        /\ out.ret.second.disp = out.ret.first.disp
        /\ out.ret.second.normal = out.ret.first.normal

\* a mid-gray image wider and taller than the blur kernel has been built
C13_Witness ==
    /\ out.op = "buildMaps"
    /\ in.image.w = 6
    /\ in.image.h = 6
    /\ in.image.data[1] = Gray(128)
    /\ IsUniform(in.image)
    /\ out.ret.first.normal[15] = <<128, 128, 255>>

\* ------------------------------------------------------------------
\* The application: store, ThreePreview, UrnMesh, ReliefPlane (Spec)
\* ------------------------------------------------------------------
MaxLoads == 3
MaxBuilds == 2

UrnIds == {"urn_vertical", "urn_horizontal"}

Images == {"imgA", "imgB"}

StlCauses == {"fetch failed"}

ImageCauses == {"image decode failed"}

\* defaultFace when the urn's metadata names none
DefaultFace == "+Y"

\* the bounding box of each urn's STL: one authored in metres, one in
\* millimetres
UrnBox(u) ==
    IF u = "urn_vertical" THEN Box(<<0, 0, 0>>, <<2000, 3000, 1500>>)
                          ELSE Box(<<-1000000, 0, 0>>, <<2000000, 3000000, 1500000>>)

\* requestedFace = face ?? defaultFace
requestedFace(f) == IF f = Null THEN DefaultFace ELSE f

\* the cleanup functions: mounted = false, live = false
Unmount(ls) == { [l EXCEPT !.mounted = FALSE] : l \in ls }

\* faulty variant: the cleanup leaves the build's flag set
Cancel_Forgotten(bs) == bs

Cancel(bs) == { [b EXCEPT !.live = FALSE] : b \in bs }

\* the only error value the preview exposes to its caller
ErrorSignals == IF stlError = Null THEN {} ELSE {stlError}

\* the relief element is rendered: urn && imageDataUrl && bbox
ReliefWanted(u, img, bb) == u # Null /\ img # Null /\ bb # NoBox

\* the render evaluates facePlacement(bbox, requestedFace) and throws with it
RenderThrows(u, img, bb, f) ==
    /\ ReliefWanted(u, img, bb)
    /\ facePlacement(UrnBox(bb.urn), requestedFace(f)).thrown

\* One render and commit of ThreePreview after a handler left the store at
\* (u, img), ThreePreview's state at (bb, scl, f, err), the loads at ls,
\* UrnMesh's geometry at g, the builds at bs and the relief's maps at m.
\*  - a throw in the render unmounts the tree: every effect is cleaned up
\*    and the components' state is gone;
\*  - <Canvas key={urnId}> remounts its children when the urn changes;
\*  - UrnMesh's effect depends on the inline onReady/onError, which are new
\*    functions in every render: it is cleaned up and run again;
\*  - ReliefPlane's effect depends on [image];
\*  - Fitter is a component declared inside ThreePreview's body, a new
\*    component type in every render: <Fitter /> is unmounted and mounted
\*    again, and its effect runs: simpleFit when bbox is set.  A new Canvas
\*    has a new camera.
\* Fitter's effect: if (!bbox) return; simpleFit(camera, controls, scaled, 2.0)
FitterEffect(bb, cam) == IF bb = NoBox THEN cam ELSE "fitted"

Rerender(u, img, bb, scl, f, err, ls, g, bs, m) ==
    LET keySame    == u = urnId
        meshWanted == u # Null
        wanted     == ReliefWanted(u, img, bb)
        stays      == reliefMounted /\ keySame /\ wanted
        restart    == wanted /\ (~stays \/ img # imageDataUrl)
    IN  IF RenderThrows(u, img, bb, f)
        THEN /\ crashed' = TRUE
             /\ bbox' = NoBox
             /\ urnScale' = [num |-> 1, den |-> 1]
             /\ face' = Null
             /\ stlError' = Null
             /\ loads' = Unmount(ls)
             /\ builds' = Cancel(bs)
             /\ UNCHANGED <<loadSeq, buildSeq>>
             /\ geometry' = NoBox
             /\ reliefMounted' = FALSE
             /\ maps' = NoMaps
             /\ camera' = "default"
        ELSE /\ crashed' = FALSE
             /\ bbox' = bb
             /\ urnScale' = scl
             /\ face' = f
             /\ stlError' = err
             /\ meshWanted => loadSeq < MaxLoads
             /\ restart => buildSeq < MaxBuilds
             /\ loads' = IF meshWanted
                         THEN Unmount(ls) \cup
                              {[id |-> loadSeq + 1, urn |-> u, mounted |-> TRUE]}
                         ELSE Unmount(ls)
             /\ loadSeq' = IF meshWanted THEN loadSeq + 1 ELSE loadSeq
             /\ geometry' = IF keySame /\ meshWanted THEN g ELSE NoBox
             /\ builds' = IF restart
                          THEN Cancel(bs) \cup
                               {[id |-> buildSeq + 1, image |-> img, live |-> TRUE]}
                          ELSE IF wanted THEN bs ELSE Cancel(bs)
             /\ buildSeq' = IF restart THEN buildSeq + 1 ELSE buildSeq
             /\ reliefMounted' = wanted
             /\ maps' = IF stays THEN m ELSE NoMaps
             /\ camera' = FitterEffect(bb, IF keySame THEN camera ELSE "default")

Init ==
    /\ in = [op |-> "none"]
    /\ out = NoCall
    /\ AppInitState

\* Home: an urn button is clicked
SetUrnId(u) ==
    /\ ~crashed
    /\ urnId' = u
    /\ Rerender(u, imageDataUrl, bbox, urnScale, face, stlError,
                loads, geometry, builds, maps)
    /\ UNCHANGED <<in, out, imageDataUrl, userScale, lastFailure, discarded>>

\* Home: a file was read (reader.onload)
SetImageDataUrl(img) ==
    /\ ~crashed
    /\ imageDataUrl' = img
    /\ Rerender(urnId, img, bbox, urnScale, face, stlError,
                loads, geometry, builds, maps)
    /\ UNCHANGED <<in, out, urnId, userScale, lastFailure, discarded>>

\* Home: the scale slider moved
SetScale(us) ==
    /\ ~crashed
    /\ us # userScale
    /\ userScale' = us
    /\ Rerender(urnId, imageDataUrl, bbox, urnScale, face, stlError,
                loads, geometry, builds, maps)
    /\ UNCHANGED <<in, out, urnId, imageDataUrl, lastFailure, discarded>>

\* Home: the order was submitted; the wizard is reset
SubmitDone ==
    /\ ~crashed
    /\ urnId # Null
    /\ imageDataUrl # Null
    /\ urnId' = Null
    /\ imageDataUrl' = Null
    /\ Rerender(Null, Null, bbox, urnScale, face, stlError,
                loads, geometry, builds, maps)
    /\ UNCHANGED <<in, out, userScale, lastFailure, discarded>>

\* ThreePreview: the face select changed
SetFace(f) ==
    /\ ~crashed
    /\ f # requestedFace(face)
    /\ Rerender(urnId, imageDataUrl, bbox, urnScale, f, stlError,
                loads, geometry, builds, maps)
    /\ UNCHANGED <<in, out, urnId, imageDataUrl, userScale, lastFailure, discarded>>

\* STLLoader calls back with the geometry of load l: if (!mounted) return;
\* otherwise setScale, setMatrix, onReady (setBbox, setUrnScale,
\* setStlError(null)) and setGeometry
LoadSuccess(l) ==
    /\ l \in loads
    /\ IF ~l.mounted
       THEN /\ loads' = loads \ {l}
            /\ UNCHANGED <<bbox, urnScale, face, stlError, geometry, loadSeq,
                           reliefMounted, maps, builds, buildSeq, crashed, camera>>
       ELSE Rerender(urnId, imageDataUrl, [urn |-> l.urn, load |-> l.id],
                     ScaleFor(UrnBox(l.urn)), face, Null,
                     loads \ {l}, [urn |-> l.urn, load |-> l.id], builds, maps)
    /\ UNCHANGED <<in, out, urnId, imageDataUrl, userScale, lastFailure, discarded>>

\* String(e) of an Error
String(cause) == "Error: " \o cause

\* STLLoader reports an error for load l: (err) => onError(err), which is
\* not guarded by `mounted`; onError is setStlError(String(e))
LoadError(l, cause) ==
    /\ l \in loads
    /\ IF crashed \/ String(cause) = stlError
       THEN /\ loads' = loads \ {l}
            /\ UNCHANGED <<bbox, urnScale, face, stlError, geometry, loadSeq,
                           reliefMounted, maps, builds, buildSeq, crashed, camera>>
       ELSE Rerender(urnId, imageDataUrl, bbox, urnScale, face, String(cause),
                     loads \ {l}, geometry, builds, maps)
    /\ lastFailure' = IF l.mounted
                      THEN [kind |-> "stl", cause |-> cause, id |-> l.id]
                      ELSE lastFailure
    /\ UNCHANGED <<in, out, urnId, imageDataUrl, userScale, discarded>>

\* buildMaps(image) of build b resolves: if (live) setMaps(mm)
BuildResolve(b) ==
    /\ b \in builds
    /\ builds' = builds \ {b}
    /\ maps' = IF b.live THEN [image |-> b.image, build |-> b.id] ELSE maps
    /\ discarded' = IF b.live THEN discarded
                     ELSE discarded \cup {[id |-> b.id, over |-> maps.build]}
    /\ UNCHANGED <<in, out, urnId, imageDataUrl, userScale, bbox, urnScale, face,
                   stlError, geometry, loads, loadSeq, reliefMounted, buildSeq,
                   crashed, camera, lastFailure>>

\* buildMaps(image) of build b rejects (img.onerror): if (live) setMaps(null)
BuildReject(b, cause) ==
    /\ b \in builds
    /\ builds' = builds \ {b}
    /\ maps' = IF b.live THEN NoMaps ELSE maps
    /\ lastFailure' = IF b.live
                      THEN [kind |-> "image", cause |-> cause, id |-> b.id]
                      ELSE lastFailure
    /\ discarded' = IF b.live THEN discarded
                     ELSE discarded \cup {[id |-> b.id, over |-> maps.build]}
    /\ UNCHANGED <<in, out, urnId, imageDataUrl, userScale, bbox, urnScale, face,
                   stlError, geometry, loads, loadSeq, reliefMounted, buildSeq,
                   crashed, camera>>

\* the user drags or zooms: OrbitControls moves the camera; no React state
\* changes
Orbit ==
    /\ ~crashed
    /\ camera # "orbited"
    /\ camera' = "orbited"
    /\ UNCHANGED <<in, out, urnId, imageDataUrl, userScale, bbox, urnScale, face,
                   stlError, geometry, loads, loadSeq, reliefMounted, maps, builds,
                   buildSeq, crashed, lastFailure, discarded>>

\* the Reset View button: doRefit returns without a bbox, else simpleFit
ResetView ==
    /\ ~crashed
    /\ bbox # NoBox
    /\ camera # "fitted"
    /\ camera' = "fitted"
    /\ UNCHANGED <<in, out, urnId, imageDataUrl, userScale, bbox, urnScale, face,
                   stlError, geometry, loads, loadSeq, reliefMounted, maps, builds,
                   buildSeq, crashed, lastFailure, discarded>>

Next ==
    \/ \E u \in UrnIds : SetUrnId(u)
    \/ \E img \in Images : SetImageDataUrl(img)
    \/ \E us \in {100, ScaleMax} : SetScale(us)
    \/ SubmitDone
    \/ \E f \in FaceCodes : SetFace(f)
    \/ \E l \in loads : LoadSuccess(l)
    \/ \E l \in loads, c \in StlCauses : LoadError(l, c)
    \/ \E b \in builds : BuildResolve(b)
    \/ \E b \in builds, c \in ImageCauses : BuildReject(b, c)
    \/ Orbit
    \/ ResetView

Spec == Init /\ [][Next]_vars

\* ------------------------------------------------------------------
\* Claims about the application (checked under Spec)
\* ------------------------------------------------------------------
\* build b is no longer the relief's current request: a later build was
\* started, or the relief is unmounted
Superseded(b) == b.id # buildSeq \/ ~reliefMounted

Settles(b) == \A c \in builds' : c.id # b.id

\* C8: the outcome (success or failure) of a build that was superseded by
\* an image change or an unmount is never written to maps, in whatever order
\* the builds settle; only the most recently started build, for the current
\* image, sets the maps.
C8_StaleBuildNeverWrites ==
    [][ /\ \A b \in builds : (Superseded(b) /\ Settles(b)) => maps' = maps
        /\ (maps' # maps /\ maps' # NoMaps) =>
                /\ reliefMounted'
                /\ maps'.build = buildSeq'
                /\ maps'.image = imageDataUrl' ]_vars

\* an earlier build settled after the later build had already set the maps,
\* and the maps are still the later build's
C8_Witness ==
    \E d \in discarded :
        /\ d.over > d.id
        /\ maps.build = d.over
        /\ maps.image = imageDataUrl

\* C9 (as claimed): in every reachable state the maps applied to the relief
\* are absent or were built from the currently selected image.
C9_Claim == maps # NoMaps => maps.image = imageDataUrl

\* C10 (as claimed): whenever a current mesh load or image build fails, the
\* caller gets an error value that carries the cause.
C10_Claim ==
    [][ lastFailure' # lastFailure => String(lastFailure'.cause) \in ErrorSignals' ]_vars

\* C16 (as claimed): the bounding box is produced once per loaded mesh:
\* applying the result of a successful load (onReady storing the box) does
\* not itself start another STL load, so the loads per urn selection are
\* bounded and the preview comes to rest.
C16_Claim ==
    [][ (bbox' # bbox /\ bbox' # NoBox) => loadSeq' = loadSeq ]_vars

\* C17 (as claimed): the camera is fitted when the bounding box or the urn
\* scale changes and at no other time: a re-render that leaves bbox and
\* urnScale unchanged, such as an edit of a relief parameter or of the face,
\* does not call simpleFit, so the user's orbit and zoom survive it.
C17_Claim ==
    [][ /\ (bbox' # bbox /\ bbox' # NoBox) => camera' = "fitted"
        /\ (/\ camera = "orbited"
            /\ bbox' = bbox
            /\ urnScale' = urnScale
            /\ urnId' = urnId
            /\ userScale' # userScale \/ face' # face) => camera' = "orbited" ]_vars

\* C19 (as claimed): once a mesh load is superseded (its urn was deselected
\* or replaced, or the effect re-ran), neither its success nor its failure
\* has any effect: when it settles, bbox, urnScale, stlError and geometry
\* are left as they were.
C19_Claim ==
    [][ \A l \in loads :
            (~l.mounted /\ \A k \in loads' : k.id # l.id) =>
                /\ bbox' = bbox
                /\ urnScale' = urnScale
                /\ stlError' = stlError
                /\ geometry' = geometry ]_vars

\* C20 (as claimed): in every reachable state in which the relief is placed,
\* bbox and urnScale come from a successful load of the currently selected
\* urn, also while the new urn's load is in flight and after it has failed.
C20_Claim ==
    reliefMounted =>
        /\ bbox.urn = urnId
        /\ urnScale = ScaleFor(UrnBox(urnId))

====
